---- MODULE Spec2Model ----
(***************************************************************************)
(* A model of src/app.py: the page auditor check_html_tags, the rule       *)
(* engine find_html_issues with its thread pool of link probes, and the    *)
(* link classifier check_link.                                             *)
(*                                                                         *)
(* The parsed document (BeautifulSoup's tree) is a record                  *)
(*   [name, attrs, children]                                               *)
(* where attrs is a function from attribute names to string values and     *)
(* children is the sequence of child nodes in document order.  A text      *)
(* node has the name "" (bs4 gives it the name None, which is falsy too).  *)
(* An optional value (Python's None or a value) is a sequence of length    *)
(* at most one: <<>> is None, <<v>> is the value v.                        *)
(*                                                                         *)
(* An issue is a record [group, text]: text is the string the code         *)
(* appends to `issues`, group names the section of find_html_issues that   *)
(* appended it (the code's "# Check ..." comments); the group is not in    *)
(* the program's state, it only lets properties speak about rule groups.   *)
(***************************************************************************)
EXTENDS Integers, Sequences, FiniteSets, TLC

VARIABLES
    soup,         \* the page behind the url, as the parser would give it
    pc,           \* where check_html_tags (the calling thread) is
    response,     \* what the fetch of line 134 ended in: None or Some(outcome)
    invoked,      \* whether find_html_issues has been called
    issues,       \* find_html_issues' local list `issues`
    link_i,       \* position of the comprehension of lines 91-95 in `links`
    link_checks,  \* the futures, in submission order
    future_i,     \* position of the loop of line 96 in `link_checks`
    verdict       \* what check_html_tags returned: <<>> or <<valid, message>>

vars == <<soup, pc, response, invoked, issues, link_i, link_checks, future_i, verdict>>

----------------------------------------------------------------------------
(* The document tree and the BeautifulSoup queries the code uses.          *)

None == <<>>

Some(v) == <<v>>

NoAttrs == <<>>

E(name, attrs, children) == [name |-> name, attrs |-> attrs, children |-> children]

Text == E("", NoAttrs, <<>>)

\* tag.get(attr): None when the attribute is missing.
Get(tag, attr) == IF attr \in DOMAIN tag.attrs THEN Some(tag.attrs[attr]) ELSE None

\* tag.get(attr, default)
GetOr(tag, attr, default) == IF attr \in DOMAIN tag.attrs THEN tag.attrs[attr] ELSE default

\* Python's truth value of an optional string: None and "" are false.
Truthy(v) == v # None /\ v[1] # ""

RECURSIVE DescendantsOf(_)
DescendantsOf(nodes) ==
    IF nodes = <<>> THEN <<>>
    ELSE <<Head(nodes)>> \o DescendantsOf(Head(nodes).children) \o DescendantsOf(Tail(nodes))

\* Every node below `tag`, in document order.
Descendants(tag) == DescendantsOf(tag.children)

\* tag.find_all([names])
find_all(tag, names) == SelectSeq(Descendants(tag), LAMBDA t: t.name \in names)

\* tag.find_all(attrs={attr: True}) and tag.find_all(attr=True)
find_all_with(tag, attr) ==
    SelectSeq(Descendants(tag), LAMBDA t: t.name # "" /\ attr \in DOMAIN t.attrs)

\* bs4's match of an attribute against a wanted value: a string matches the
\* attribute holding that string, None matches a tag WITHOUT the attribute.
AttrMatches(tag, attr, wanted) ==
    IF wanted = None THEN attr \notin DOMAIN tag.attrs
    ELSE attr \in DOMAIN tag.attrs /\ tag.attrs[attr] = wanted[1]

\* soup.find(name, {attr: wanted}) is not None
find_attr(tag, name, attr, wanted) ==
    \E k \in 1..Len(Descendants(tag)) :
        /\ Descendants(tag)[k].name = name
        /\ AttrMatches(Descendants(tag)[k], attr, wanted)

\* soup.find(name) is not None
find(tag, name) == find_all(tag, {name}) # <<>>

\* str.lower() on the meta names the documents of this model use.
Lower(s) ==
    CASE s = "Viewport" -> "viewport"
      [] s = "DESCRIPTION" -> "description"
      [] OTHER -> s

\* str.startswith('#') on the references the documents of this model use.
FragmentRefs == {"#", "#section", "#top"}

StartsWithHash(s) == s \in FragmentRefs

Issue(group, text) == [group |-> group, text |-> text]

\* body(s[1]) \o ... \o body(s[n]): the issues a loop over s appends.
RECURSIVE Concat(_)
Concat(ss) == IF ss = <<>> THEN <<>> ELSE Head(ss) \o Concat(Tail(ss))

ForEach(s, body(_)) == Concat([k \in 1..Len(s) |-> body(s[k])])

When(cond, group, text) == IF cond THEN <<Issue(group, text)>> ELSE <<>>

----------------------------------------------------------------------------
(* The rule groups of find_html_issues, each as the issues it appends.     *)

\* lines 28-31
EmptyTagIssues(s) ==
    ForEach(find_all(s, {"div", "p", "span", "a"}), LAMBDA tag :
        When(/\ tag.children = <<>>
             /\ ~Truthy(Get(tag, "href"))
             /\ ~Truthy(Get(tag, "id"))
             /\ ~Truthy(Get(tag, "class")),
             "empty", "Empty " \o tag.name \o " tag found"))

\* lines 33-38
ImageIssues(s) ==
    ForEach(find_all(s, {"img"}), LAMBDA img :
        When(~Truthy(Get(img, "alt")), "images",
             "Image missing alt text: " \o GetOr(img, "src", "unknown source"))
        \o When(~Truthy(Get(img, "src")), "images", "Image missing src attribute"))

\* The loop of lines 42-46 comparing each id with every other id of the
\* document instead of with the ids met so far.
RECURSIVE DuplicateIdLoopAnyOther(_, _)
DuplicateIdLoopAnyOther(tags, seen) ==
    IF tags = <<>> THEN <<>>
    ELSE LET id_value == Head(tags).attrs["id"] IN
         When(\/ id_value \in seen
              \/ \E k \in 2..Len(tags) : tags[k].attrs["id"] = id_value,
              "ids", "Duplicate ID found: " \o id_value)
         \o DuplicateIdLoopAnyOther(Tail(tags), seen \cup {id_value})

\* lines 40-46: `seen` is the dict `ids`.
RECURSIVE DuplicateIdLoop(_, _)
DuplicateIdLoop(tags, seen) ==
    IF tags = <<>> THEN <<>>
    ELSE LET id_value == Head(tags).attrs["id"] IN
         When(id_value \in seen, "ids", "Duplicate ID found: " \o id_value)
         \o DuplicateIdLoop(Tail(tags), seen \cup {id_value})

DuplicateIdIssues(s) == DuplicateIdLoop(find_all_with(s, "id"), {})

HeadingNames == {"h1", "h2", "h3", "h4", "h5", "h6"}

\* int(heading.name[1])
HeadingLevel(name) ==
    CASE name = "h1" -> 1 [] name = "h2" -> 2 [] name = "h3" -> 3
      [] name = "h4" -> 4 [] name = "h5" -> 5 [] name = "h6" -> 6

\* The loop of lines 53-57 with line 57 inside an else: prev_level is kept
\* when a level was skipped.
RECURSIVE HeadingLoopKeepsPrev(_, _)
HeadingLoopKeepsPrev(headings, prev_level) ==
    IF headings = <<>> THEN <<>>
    ELSE LET current_level == HeadingLevel(Head(headings).name) IN
         IF current_level > prev_level + 1
         THEN <<Issue("headings", "Heading level skipped: from h" \o ToString(prev_level)
                                      \o " to h" \o ToString(current_level))>>
              \o HeadingLoopKeepsPrev(Tail(headings), prev_level)
         ELSE HeadingLoopKeepsPrev(Tail(headings), current_level)

\* lines 52-57
RECURSIVE HeadingLoop(_, _)
HeadingLoop(headings, prev_level) ==
    IF headings = <<>> THEN <<>>
    ELSE LET current_level == HeadingLevel(Head(headings).name) IN
         When(current_level > prev_level + 1, "headings",
              "Heading level skipped: from h" \o ToString(prev_level)
                  \o " to h" \o ToString(current_level))
         \o HeadingLoop(Tail(headings), current_level)

\* lines 48-57
HeadingIssues(s) ==
    When(~find(s, "h1"), "headings", "No H1 heading found")
    \o HeadingLoop(find_all(s, HeadingNames), 0)

deprecated_tags == <<"center", "font", "strike", "u", "marquee", "blink">>

\* lines 59-64
DeprecatedIssues(s) ==
    ForEach(deprecated_tags, LAMBDA tag :
        LET found_tags == find_all(s, {tag}) IN
        When(found_tags # <<>>, "deprecated",
             "Deprecated tag found: " \o tag \o " ("
                 \o ToString(Len(found_tags)) \o " instances)"))

\* line 72
UnlabelledTypes == {Some("submit"), Some("button"), Some("hidden")}

\* line 73: the input has a label
HasLabel(s, input_tag) ==
    \/ Truthy(Get(input_tag, "label"))
    \/ find_attr(s, "label", "for", Get(input_tag, "id"))

\* lines 71-74
InputIssues(s, form) ==
    ForEach(find_all(form, {"input"}), LAMBDA input_tag :
        When(Get(input_tag, "type") \notin UnlabelledTypes /\ ~HasLabel(s, input_tag),
             "forms",
             "Input missing associated label: " \o GetOr(input_tag, "name", "unnamed input")))

\* lines 66-74
FormIssues(s) ==
    ForEach(find_all(s, {"form"}), LAMBDA form :
        When(~Truthy(Get(form, "action")), "forms", "Form missing action attribute")
        \o InputIssues(s, form))

\* line 78
meta_names(s) ==
    LET meta_tags == find_all(s, {"meta"}) IN
    {Lower(GetOr(meta_tags[k], "name", "")) : k \in 1..Len(meta_tags)}

\* lines 76-82
MetaIssues(s) ==
    When("viewport" \notin meta_names(s), "meta", "Missing viewport meta tag")
    \o When("description" \notin meta_names(s), "meta", "Missing description meta tag")

\* lines 84-86
CharsetIssues(s) ==
    When(~(\E k \in 1..Len(find_all(s, {"meta"})) :
               "charset" \in DOMAIN find_all(s, {"meta"})[k].attrs),
         "charset", "No character encoding declared")

\* lines 101-104
InlineStyleIssues(s) ==
    LET inline_styles == find_all_with(s, "style") IN
    When(inline_styles # <<>>, "styles",
         "Found " \o ToString(Len(inline_styles)) \o " inline style attributes")

js_attrs == <<"onclick", "onload", "onsubmit", "onmouseover">>

\* lines 106-111
InlineScriptIssues(s) ==
    ForEach(js_attrs, LAMBDA attr :
        LET elements == find_all_with(s, attr) IN
        When(elements # <<>>, "scripts",
             "Found " \o ToString(Len(elements)) \o " inline JavaScript "
                 \o attr \o " attributes"))

\* lines 113-120
ListIssues(s) ==
    ForEach(find_all(s, {"ul", "ol"}), LAMBDA list_tag :
        When(find_all(list_tag, {"li"}) = <<>>, "lists",
             "Empty " \o list_tag.name \o " list found")
        \o When(\E k \in 1..Len(list_tag.children) :
                    list_tag.children[k].name \notin {"", "li"},
                "lists", "List contains non-li elements"))

\* lines 122-127
TableIssues(s) ==
    ForEach(find_all(s, {"table"}), LAMBDA table :
        When(~find(table, "thead") /\ ~find(table, "th"), "tables", "Table missing headers")
        \o When(~find(table, "tbody"), "tables", "Table missing tbody"))

\* Lines 25-86 with the inline-style check of lines 101-104 moved before the
\* links.
StylesBeforeLinks(s) ==
    EmptyTagIssues(s) \o ImageIssues(s) \o DuplicateIdIssues(s) \o HeadingIssues(s)
    \o DeprecatedIssues(s) \o FormIssues(s) \o MetaIssues(s) \o CharsetIssues(s)
    \o InlineStyleIssues(s)

\* lines 25-86: what find_html_issues has appended when it reaches the links.
IssuesBeforeLinks(s) ==
    EmptyTagIssues(s) \o ImageIssues(s) \o DuplicateIdIssues(s) \o HeadingIssues(s)
    \o DeprecatedIssues(s) \o FormIssues(s) \o MetaIssues(s) \o CharsetIssues(s)

\* lines 101-127: what it appends after the links.
IssuesAfterLinks(s) ==
    InlineStyleIssues(s) \o InlineScriptIssues(s) \o ListIssues(s) \o TableIssues(s)

----------------------------------------------------------------------------
(* check_link and the thread pool of lines 88-99.                          *)

\* A pool with a worker for every submitted call.
WorkerPerCall == Len(link_checks)

\* line 90
max_workers == 5

\* What the network does to one probe: an answer with a status code, a
\* transport failure (requests.RequestException), or an error that is not a
\* RequestException (urljoin raises ValueError on a malformed reference).
ProbeStatusCodes == {200, 400}

ProbeOutcomes ==
    {[kind |-> "status", code |-> c, desc |-> ""] : c \in ProbeStatusCodes}
    \cup {[kind |-> "RequestException", code |-> 0, desc |-> "timed out"],
          [kind |-> "ValueError", code |-> 0, desc |-> "Invalid IPv6 URL"]}

Returned(link, is_valid, message) ==
    [raised |-> FALSE, link |-> link, is_valid |-> is_valid, message |-> message]

Raised(desc) == [raised |-> TRUE, link |-> "", is_valid |-> FALSE, message |-> desc]

\* check_link without the except clause of lines 20-21.
check_link_uncaught(url, net) ==
    IF net.kind = "status"
    THEN IF net.code >= 400
         THEN Returned(url, FALSE, "Broken link (Status " \o ToString(net.code) \o ")")
         ELSE Returned(url, TRUE, "OK")
    ELSE Raised(net.desc)

\* lines 12-21
check_link(url, net) ==
    IF net.kind = "status"
    THEN IF net.code >= 400
         THEN Returned(url, FALSE, "Broken link (Status " \o ToString(net.code) \o ")")
         ELSE Returned(url, TRUE, "OK")
    ELSE IF net.kind = "RequestException"
         THEN Returned(url, FALSE, "Failed to access: " \o net.desc)
         ELSE Raised(net.desc)

\* line 89
links == find_all(soup, {"a"})

\* The filter without its startswith('#') test.
AuditableAnyValue(link) == Truthy(Get(link, "href"))

\* line 94: the filter of the comprehension
Auditable(link) ==
    Truthy(Get(link, "href")) /\ ~StartsWithHash(link.attrs["href"])

\* line 92: executor.submit gives a pending future
Future(url) == [url |-> url, state |-> "pending", net |-> None, result |-> None]

Running == {k \in 1..Len(link_checks) : link_checks[k].state = "running"}

Pending == {k \in 1..Len(link_checks) : link_checks[k].state = "pending"}

\* The loop of line 96 over reversed(link_checks).
LastFutureFirst == Len(link_checks) + 1 - future_i

\* line 96: the future the loop waits for next
FutureToAwait == future_i

\* line 99
LinkIssue(r) ==
    When(~r.is_valid, "links", "Link issue (" \o r.link \o "): " \o r.message)

----------------------------------------------------------------------------
(* check_html_tags                                                         *)

\* What the fetch of line 134 ends in.
FetchOutcomes ==
    {[kind |-> "status", code |-> 200, desc |-> ""],
     [kind |-> "status", code |-> 404, desc |-> "404 Client Error"],
     [kind |-> "status", code |-> 500, desc |-> "500 Server Error"],
     [kind |-> "RequestException", code |-> 0, desc |-> "Read timed out"]}

\* A check that raises for server errors only.
raise_for_server_error(code) == code >= 500 /\ code < 600

\* line 135: response.raise_for_status() raises HTTPError, a RequestException
raise_for_status(code) == code >= 400 /\ code < 600

FetchFailed(r) == r.kind = "RequestException" \/ raise_for_status(r.code)

RECURSIVE Join(_, _)
Join(sep, strs) ==
    IF strs = <<>> THEN ""
    ELSE IF Len(strs) = 1 THEN strs[1]
    ELSE strs[1] \o sep \o Join(sep, Tail(strs))

Texts(iss) == [k \in 1..Len(iss) |-> iss[k].text]

\* Lines 139-141 joining issues[1:].
VerdictSkipsFirst(iss) ==
    IF iss # <<>>
    THEN <<FALSE, "HTML issues found:\n" \o Join("\n", Texts(Tail(iss)))>>
    ELSE <<TRUE, "HTML is well-formed">>

\* lines 139-141
Verdict(iss) ==
    IF iss # <<>>
    THEN <<FALSE, "HTML issues found:\n" \o Join("\n", Texts(iss))>>
    ELSE <<TRUE, "HTML is well-formed">>

\* lines 133-137 and 25-89: the fetch succeeds, find_html_issues runs its
\* rule groups up to the links.
FetchOK ==
    /\ pc = "fetch"
    /\ \E r \in FetchOutcomes :
        /\ ~FetchFailed(r)
        /\ response' = Some(r)
    /\ invoked' = TRUE
    /\ issues' = IssuesBeforeLinks(soup)
    /\ pc' = IF links = <<>> THEN "collect" ELSE "submit"
    /\ UNCHANGED <<soup, link_i, link_checks, future_i, verdict>>

\* lines 133-135 and 143-144
FetchFails ==
    /\ pc = "fetch"
    /\ \E r \in FetchOutcomes :
        /\ FetchFailed(r)
        /\ response' = Some(r)
        /\ verdict' = <<FALSE, "Error accessing URL: " \o r.desc>>
    /\ pc' = "done"
    /\ UNCHANGED <<soup, invoked, issues, link_i, link_checks, future_i>>

\* lines 91-95: one step of the comprehension
Submit ==
    /\ pc = "submit"
    /\ link_checks' = IF Auditable(links[link_i])
                      THEN Append(link_checks, Future(links[link_i].attrs["href"]))
                      ELSE link_checks
    /\ link_i' = link_i + 1
    /\ pc' = IF link_i = Len(links) THEN "collect" ELSE "submit"
    /\ UNCHANGED <<soup, response, invoked, issues, future_i, verdict>>

\* A free worker of the pool takes the oldest queued call.
StartProbe ==
    /\ Cardinality(Running) < max_workers
    /\ \E k \in Pending :
        /\ \A j \in Pending : k <= j
        /\ link_checks' = [link_checks EXCEPT ![k].state = "running"]
    /\ UNCHANGED <<soup, response, pc, invoked, issues, link_i, future_i, verdict>>

\* A worker's check_link call ends; the future holds what it returned or raised.
FinishProbe ==
    /\ \E k \in Running, net \in ProbeOutcomes :
        link_checks' = [link_checks EXCEPT
                           ![k].state = "finished",
                           ![k].net = Some(net),
                           ![k].result = Some(check_link(link_checks[k].url, net))]
    /\ UNCHANGED <<soup, response, pc, invoked, issues, link_i, future_i, verdict>>

\* lines 96-99: future.result() of the next future, once it is finished
Collect ==
    /\ pc = "collect"
    /\ future_i <= Len(link_checks)
    /\ link_checks[FutureToAwait].state = "finished"
    /\ LET r == link_checks[FutureToAwait].result[1] IN
        IF r.raised
        THEN /\ pc' = "shutdown"
             /\ UNCHANGED <<issues, future_i>>
        ELSE /\ issues' = issues \o LinkIssue(r)
             /\ future_i' = future_i + 1
             /\ pc' = pc
    /\ UNCHANGED <<soup, response, invoked, link_i, link_checks, verdict>>

\* lines 101-129 and 139-141: the loop is over, the pool is shut down (every
\* future is finished), the remaining groups run and the verdict is returned.
Return ==
    /\ pc = "collect"
    /\ future_i > Len(link_checks)
    /\ issues' = issues \o IssuesAfterLinks(soup)
    /\ verdict' = Verdict(issues \o IssuesAfterLinks(soup))
    /\ pc' = "done"
    /\ UNCHANGED <<soup, response, invoked, link_i, link_checks, future_i>>

\* lines 90 and 145-146: an exception of future.result() leaves the with
\* block, whose exit waits for every submitted call; then check_html_tags
\* turns it into a verdict.
Shutdown ==
    /\ pc = "shutdown"
    /\ \A k \in 1..Len(link_checks) : link_checks[k].state = "finished"
    /\ verdict' = <<FALSE, "Error processing HTML: "
                               \o link_checks[FutureToAwait].result[1].message>>
    /\ pc' = "done"
    /\ UNCHANGED <<soup, response, invoked, issues, link_i, link_checks, future_i>>

Next ==
    \/ FetchOK
    \/ FetchFails
    \/ Submit
    \/ StartProbe
    \/ FinishProbe
    \/ Collect
    \/ Return
    \/ Shutdown

----------------------------------------------------------------------------
(* Documents.                                                              *)

Page(children) == E("[document]", NoAttrs, children)

InitRest ==
    /\ response = None
    /\ invoked = FALSE
    /\ issues = <<>>
    /\ link_i = 1
    /\ link_checks = <<>>
    /\ future_i = 1
    /\ verdict = <<>>

\* Pieces of markup a page is put together from, in document order.
Fragments == <<
    << E("table", NoAttrs, << E("tr", NoAttrs, << E("td", NoAttrs, <<Text>>) >>) >>) >>,
    << E("ol", NoAttrs, << E("div", [class |-> "row"], <<Text>>) >>) >>,
    << E("span", [style |-> "color:red", onclick |-> "go()"], <<Text>>) >>,
    << E("a", [href |-> "/a"], <<Text>>) >>,
    << E("a", [href |-> "b.html"], <<Text>>) >>,
    << E("a", [href |-> "#section"], <<Text>>) >>,
    << E("a", [href |-> ""], <<Text>>) >>,
    << E("a", [name |-> "top"], <<Text>>) >>,
    << E("form", NoAttrs, << E("input", [type |-> "text", name |-> "q"], <<>>) >>) >>,
    << E("h3", NoAttrs, <<Text>>) >>,
    << E("div", [id |-> "dup"], <<Text>>), E("p", [id |-> "dup"], <<Text>>) >>,
    << E("img", NoAttrs, <<>>) >>,
    << E("div", NoAttrs, <<>>) >>,
    << E("center", NoAttrs, <<Text>>) >>,
    << E("h1", NoAttrs, <<Text>>),
       E("meta", [name |-> "Viewport", content |-> "width=device-width"], <<>>),
       E("meta", [name |-> "description", content |-> "A page"], <<>>),
       E("meta", [charset |-> "utf-8"], <<>>) >>,
    << E("meta", [name |-> "viewport", content |-> "width=device-width"], <<>>) >>
>>

\* The page made of the fragments chosen by S.
PageOf(S) ==
    Page(Concat([k \in 1..Len(Fragments) |-> IF k \in S THEN Fragments[k] ELSE <<>>]))

MaxFragments == 3

\* A page of at most MaxFragments fragments behind the url.
Init ==
    /\ \E S \in SUBSET (1..Len(Fragments)) :
        /\ Cardinality(S) <= MaxFragments
        /\ soup = PageOf(S)
    /\ pc = "fetch"
    /\ InitRest

Spec == Init /\ [][Next]_vars

MaxLinks == 6

\* A page of up to MaxLinks anchors with distinct references.
LinksPage(n) ==
    Page([k \in 1..n |-> E("a", [href |-> "/p" \o ToString(k)], <<Text>>)])

InitPool ==
    /\ \E n \in 0..MaxLinks : soup = LinksPage(n)
    /\ pc = "fetch"
    /\ InitRest

SpecPool == InitPool /\ [][Next]_vars

----------------------------------------------------------------------------
(* The heading check, the duplicate-id check and the form check on their   *)
(* own: each is a function of the document.                                *)

MaxHeadings == 3

\* A page of headings of the given levels, with a paragraph between them.
HeadingsPage(levels) ==
    Page(Concat([k \in 1..Len(levels) |->
        << E("h" \o ToString(levels[k]), NoAttrs, <<Text>>), E("p", NoAttrs, <<Text>>) >>]))

InitHeadings ==
    /\ \E n \in 0..MaxHeadings : \E levels \in [1..n -> 1..6] : soup = HeadingsPage(levels)
    /\ pc = "headings"
    /\ InitRest

\* lines 48-57
CheckHeadings ==
    /\ pc = "headings"
    /\ issues' = HeadingIssues(soup)
    /\ pc' = "done"
    /\ UNCHANGED <<soup, response, invoked, link_i, link_checks, future_i, verdict>>

SpecHeadings == InitHeadings /\ [][CheckHeadings]_vars

\* The attributes that have a value, out of optional ones.
Attrs(optional) ==
    [a \in {x \in DOMAIN optional : optional[x] # None} |-> optional[a][1]]

MaxIdTags == 4

IdChoices == {None, Some("dup"), Some("main"), Some("")}

\* A page of elements, each with the id given for it or with none.
IdsPage(ids) ==
    Page([k \in 1..Len(ids) |-> E("div", Attrs([id |-> ids[k]]), <<Text>>)])

InitIds ==
    /\ \E n \in 0..MaxIdTags : \E ids \in [1..n -> IdChoices] : soup = IdsPage(ids)
    /\ pc = "ids"
    /\ InitRest

\* lines 40-46
CheckIds ==
    /\ pc = "ids"
    /\ issues' = DuplicateIdIssues(soup)
    /\ pc' = "done"
    /\ UNCHANGED <<soup, response, invoked, link_i, link_checks, future_i, verdict>>

SpecIds == InitIds /\ [][CheckIds]_vars

MaxInputs == 1

MaxLabels == 1

InputChoices ==
    [type : {None, Some("text"), Some("submit")},
     label : {None, Some(""), Some("Name")},
     id : {None, Some("q")},
     name : {None, Some("q")}]

ForChoices == {None, Some("q"), Some("other")}

\* A page of one form holding the inputs, followed by the label elements.
FormsPage(inputs, fors) ==
    Page(<< E("form", [action |-> "/send"],
              [k \in 1..Len(inputs) |-> E("input", Attrs(inputs[k]), <<>>)]) >>
         \o [k \in 1..Len(fors) |-> E("label", Attrs([for |-> fors[k]]), <<Text>>)])

InitForms ==
    /\ \E n \in 0..MaxInputs, m \in 0..MaxLabels :
        \E inputs \in [1..n -> InputChoices], fors \in [1..m -> ForChoices] :
            soup = FormsPage(inputs, fors)
    /\ pc = "forms"
    /\ InitRest

\* lines 66-74
CheckForms ==
    /\ pc = "forms"
    /\ issues' = FormIssues(soup)
    /\ pc' = "done"
    /\ UNCHANGED <<soup, response, invoked, link_i, link_checks, future_i, verdict>>

SpecForms == InitForms /\ [][CheckForms]_vars

----------------------------------------------------------------------------
(* Properties.                                                             *)

\* The references of the document's anchors that have a value (an href that
\* is missing or empty has none) and do not start with '#', in document order.
HasHrefValue(a) == "href" \in DOMAIN a.attrs /\ a.attrs["href"] # ""

ShouldAudit(a) == HasHrefValue(a) /\ a.attrs["href"] \notin FragmentRefs

Hrefs(as) == [k \in 1..Len(as) |-> as[k].attrs["href"]]

Urls(futures) == [k \in 1..Len(futures) |-> futures[k].url]

LinkIssueTexts == Texts(SelectSeq(issues, LAMBDA i : i.group = "links"))

Finished(k) == link_checks[k].state = "finished"

NetOf(k) == link_checks[k].net[1]

ResultOf(k) == link_checks[k].result[1]

\* C1: during the link audit at most 5 check_link probes execute at the
\* same time, whatever the number of auditable references; the others wait.
C1_AtMostFiveProbes == Cardinality(Running) <= 5

\* Five probes run and a sixth reference is queued.
C1_Witness ==
    /\ Cardinality(Running) = 5
    /\ Pending # {}
    /\ Len(link_checks) >= 6

\* The link issues of the first n futures, in submission order.
LinkTextsInOrder(n) ==
    Concat([k \in 1..n |->
        IF ResultOf(k).is_valid THEN <<>>
        ELSE <<"Link issue (" \o link_checks[k].url \o "): " \o ResultOf(k).message>>])

\* C2: the futures are in the order of the references in the document, and
\* the link issues are those of the collected futures in that order, however
\* the probes' completions are ordered; a returned audit has collected all.
C2_SubmissionOrder ==
    /\ Len(link_checks) <= Len(SelectSeq(links, ShouldAudit))
    /\ Urls(link_checks) = SubSeq(Hrefs(SelectSeq(links, ShouldAudit)), 1, Len(link_checks))
    /\ future_i - 1 <= Len(link_checks)
    /\ \A k \in 1..(future_i - 1) : Finished(k)
    /\ LinkIssueTexts = LinkTextsInOrder(future_i - 1)
    /\ (pc = "done" /\ invoked /\ verdict = Verdict(issues)) =>
           future_i - 1 = Len(SelectSeq(links, ShouldAudit))

\* The first reference's issue is in the list, the third probe has failed
\* before the second has ended.
C2_Witness ==
    /\ Len(link_checks) >= 3
    /\ future_i = 2
    /\ Len(LinkIssueTexts) = 1
    /\ link_checks[2].state = "running"
    /\ Finished(3)
    /\ ~ResultOf(3).is_valid

NetFailed(net) ==
    net.kind = "RequestException" \/ (net.kind = "status" /\ net.code >= 400)

NetDetail(net) ==
    IF net.kind = "status"
    THEN "Broken link (Status " \o ToString(net.code) \o ")"
    ELSE "Failed to access: " \o net.desc

\* Every probe that has ended has ended in an answer or a transport failure.
OnlyAnswersAndTransportFailures ==
    \A k \in 1..Len(link_checks) :
        Finished(k) => NetOf(k).kind \in {"status", "RequestException"}

\* C3: a probe that ends in a transport failure or a status >= 400 becomes
\* an unreachable outcome of its own reference; every submitted probe runs to
\* completion before the audit is left; and when the probes end in answers
\* and transport failures only, the audit returns with one outcome per
\* auditable reference and one "Link issue" per failed probe.
C3_ProbeFailuresContained ==
    /\ \A k \in 1..Len(link_checks) :
        (Finished(k) /\ NetFailed(NetOf(k))) =>
            ResultOf(k) = Returned(link_checks[k].url, FALSE, NetDetail(NetOf(k)))
    /\ (pc = "done" /\ invoked) => \A k \in 1..Len(link_checks) : Finished(k)
    /\ (pc = "shutdown") => ~OnlyAnswersAndTransportFailures
    /\ (pc = "done" /\ invoked /\ OnlyAnswersAndTransportFailures) =>
        /\ Len(link_checks) = Len(SelectSeq(links, ShouldAudit))
        /\ future_i = Len(link_checks) + 1
        /\ verdict = Verdict(issues)
        /\ LinkIssueTexts =
               Concat([k \in 1..Len(link_checks) |->
                   IF NetFailed(NetOf(k))
                   THEN <<"Link issue (" \o link_checks[k].url \o "): "
                              \o NetDetail(NetOf(k))>>
                   ELSE <<>>])

\* The audit has returned after a timeout, a status 400 and a status 200.
C3_Witness ==
    /\ pc = "done"
    /\ invoked
    /\ OnlyAnswersAndTransportFailures
    /\ \E i, j, k \in 1..Len(link_checks) :
        /\ NetOf(i).kind = "RequestException"
        /\ NetOf(j).kind = "status" /\ NetOf(j).code = 400
        /\ NetOf(k).kind = "status" /\ NetOf(k).code = 200
    /\ Len(LinkIssueTexts) = 2

\* The anchors the comprehension of lines 91-95 has gone through.
ScannedLinks == IF invoked THEN SubSeq(links, 1, link_i - 1) ELSE <<>>

\* C4: an anchor is submitted to check_link, once, if and only if its href
\* has a value and does not start with '#'; the other anchors are never
\* submitted and no "Link issue" names them.
C4_OnlyAuditableSubmitted ==
    /\ Urls(link_checks) = Hrefs(SelectSeq(ScannedLinks, ShouldAudit))
    /\ pc \in {"collect", "shutdown"} => ScannedLinks = links
    /\ (pc = "done" /\ invoked) => ScannedLinks = links
    /\ \A i \in 1..Len(LinkIssueTexts) :
        \E k \in 1..Len(link_checks), a \in 1..Len(links) :
            /\ ShouldAudit(links[a])
            /\ link_checks[k].url = links[a].attrs["href"]
            /\ LinkIssueTexts[i] =
                   "Link issue (" \o link_checks[k].url \o "): " \o ResultOf(k).message

\* A page with a "#section" anchor, an anchor with an empty href and an
\* anchor to "/a": only "/a" was probed, and it is reported.
C4_Witness ==
    /\ pc = "done"
    /\ invoked
    /\ \E a, b \in 1..Len(links) :
        /\ Get(links[a], "href") = Some("#section")
        /\ Get(links[b], "href") \in {None, Some("")}
    /\ Urls(link_checks) = <<"/a">>
    /\ Len(LinkIssueTexts) = 1

\* The place of a rule group in the catalog.
CatalogRank(group) ==
    CASE group = "empty" -> 1
      [] group = "images" -> 2
      [] group = "ids" -> 3
      [] group = "headings" -> 4
      [] group = "deprecated" -> 5
      [] group = "forms" -> 6
      [] group = "meta" -> 7
      [] group = "charset" -> 8
      [] group = "links" -> 9
      [] group = "styles" -> 10
      [] group = "scripts" -> 11
      [] group = "lists" -> 12
      [] group = "tables" -> 13

\* C5: in the list of issues every issue of an earlier rule group of the
\* catalog precedes every issue of a later one; the link issues come after
\* the meta and encoding issues and before the style, script, list and table
\* issues, whatever the probes' timing.
C5_RuleGroupOrder ==
    \A i, j \in 1..Len(issues) :
        i < j => CatalogRank(issues[i].group) <= CatalogRank(issues[j].group)

\* A returned list with a meta issue, then a link issue, then a style issue.
C5_Witness ==
    /\ pc = "done"
    /\ \E i, j, k \in 1..Len(issues) :
        /\ i < j /\ j < k
        /\ issues[i].group \in {"meta", "charset"}
        /\ issues[j].group = "links"
        /\ issues[k].group \in {"styles", "scripts", "lists", "tables"}

\* The fetch succeeded and find_html_issues returned.
Evaluated ==
    /\ pc = "done"
    /\ invoked
    /\ \A k \in 1..Len(link_checks) : ~ResultOf(k).raised

\* C6: once the fetch has succeeded and the rules are evaluated, the verdict
\* is valid exactly when the issue list is empty, with 'HTML is well-formed',
\* and otherwise carries 'HTML issues found:' and every issue, in order,
\* each on a line of its own.
C6_VerdictFromIssues ==
    Evaluated =>
        /\ verdict[1] <=> (issues = <<>>)
        /\ issues = <<>> => verdict = <<TRUE, "HTML is well-formed">>
        /\ issues # <<>> =>
               verdict = <<FALSE, "HTML issues found:\n" \o Join("\n", Texts(issues))>>

\* An invalid verdict over at least three issues, a link issue among them.
C6_Witness ==
    /\ Evaluated
    /\ Len(issues) >= 3
    /\ LinkIssueTexts # <<>>
    /\ verdict[1] = FALSE

\* A valid verdict for a page whose links were probed.
C6_ValidReached ==
    /\ Evaluated
    /\ link_checks # <<>>
    /\ verdict = <<TRUE, "HTML is well-formed">>

\* C7: when the fetch ends in a transport failure or an error status,
\* check_html_tags returns (false, 'Error accessing URL: <description>') and
\* find_html_issues is not invoked: no issue is produced, no probe submitted.
C7_FetchFailureSkipsRules ==
    (response # None /\ (response[1].kind = "RequestException" \/ response[1].code >= 400)) =>
        /\ pc = "done"
        /\ verdict = <<FALSE, "Error accessing URL: " \o response[1].desc>>
        /\ ~invoked
        /\ issues = <<>>
        /\ link_checks = <<>>

\* The fetch of a page with anchors timed out.
C7_Witness ==
    /\ response # None
    /\ response[1].kind = "RequestException"
    /\ SelectSeq(links, ShouldAudit) # <<>>
    /\ verdict = <<FALSE, "Error accessing URL: Read timed out">>

\* The levels of the document's headings, in document order.
Levels ==
    LET hs == SelectSeq(Descendants(soup), LAMBDA t : t.name \in HeadingNames)
    IN [k \in 1..Len(hs) |-> HeadingLevel(hs[k].name)]

PreviousLevel(L, k) == IF k = 1 THEN 0 ELSE L[k - 1]

\* C8: with previous level 0 at the start and the previous heading's level
\* afterwards, a heading gives 'Heading level skipped: from h<prev> to
\* h<current>' exactly when its level exceeds the previous level plus 1, and
\* 'No H1 heading found' is given exactly when no heading has level 1.
C8_HeadingRule ==
    pc = "done" =>
        Texts(issues) =
            (IF \A k \in 1..Len(Levels) : Levels[k] # 1
             THEN <<"No H1 heading found">> ELSE <<>>)
            \o Concat([k \in 1..Len(Levels) |->
                   IF Levels[k] > PreviousLevel(Levels, k) + 1
                   THEN <<"Heading level skipped: from h"
                              \o ToString(PreviousLevel(Levels, k))
                              \o " to h" \o ToString(Levels[k])>>
                   ELSE <<>>])

\* Headings h1, h3 give the one issue 'from h1 to h3'.
C8_Witness ==
    /\ pc = "done"
    /\ Levels = <<1, 3>>
    /\ Texts(issues) = <<"Heading level skipped: from h1 to h3">>

\* Headings h1, h2, h3 give no issue.
C8_NoSkipReached ==
    /\ pc = "done"
    /\ Levels = <<1, 2, 3>>
    /\ issues = <<>>

\* The id values of the elements carrying an id, in document order.
IdValues ==
    LET tags == SelectSeq(Descendants(soup), LAMBDA t : "id" \in DOMAIN t.attrs)
    IN [k \in 1..Len(tags) |-> tags[k].attrs["id"]]

Occurrences(s, v) == Cardinality({k \in 1..Len(s) : s[k] = v})

\* C9: 'Duplicate ID found: <id>' is given for every occurrence of an id
\* value after its first and for no first occurrence: a value occurring
\* k >= 1 times gives k - 1 issues.
C9_DuplicateIdRule ==
    pc = "done" =>
        /\ Texts(issues) =
               Concat([k \in 1..Len(IdValues) |->
                   IF \E j \in 1..(k - 1) : IdValues[j] = IdValues[k]
                   THEN <<"Duplicate ID found: " \o IdValues[k]>>
                   ELSE <<>>])
        /\ \A k \in 1..Len(IdValues) :
               Occurrences(Texts(issues), "Duplicate ID found: " \o IdValues[k])
                   = Occurrences(IdValues, IdValues[k]) - 1

\* Two elements with id 'dup' give one issue naming 'dup'.
C9_Witness ==
    /\ pc = "done"
    /\ IdValues = <<"dup", "dup">>
    /\ Texts(issues) = <<"Duplicate ID found: dup">>

\* The inputs of the document's forms that the label rule is about.
CheckedInputs ==
    LET forms == SelectSeq(Descendants(soup), LAMBDA t : t.name = "form")
    IN SelectSeq(Concat([k \in 1..Len(forms) |->
                     SelectSeq(Descendants(forms[k]), LAMBDA t : t.name = "input")]),
                 LAMBDA i : Get(i, "type") \notin {Some("submit"), Some("button"), Some("hidden")})

\* A label element of the document whose 'for' value is the input's id.
LabelledByFor(i) ==
    \E k \in 1..Len(Descendants(soup)) :
        LET t == Descendants(soup)[k] IN
        /\ t.name = "label"
        /\ "for" \in DOMAIN t.attrs
        /\ "id" \in DOMAIN i.attrs
        /\ t.attrs["for"] = i.attrs["id"]

\* C10: for every input of a form whose type is not submit, button or
\* hidden, 'Input missing associated label: <name or unnamed input>' is given
\* exactly when the input has no label attribute (none, or an empty one) and
\* no label element of the document has a 'for' equal to the input's id,
\* also for an input without an id beside label elements without a 'for'.
C10_InputLabelRule ==
    pc = "done" =>
        Texts(issues) =
            Concat([k \in 1..Len(CheckedInputs) |->
                IF ~Truthy(Get(CheckedInputs[k], "label")) /\ ~LabelledByFor(CheckedInputs[k])
                THEN <<"Input missing associated label: "
                           \o GetOr(CheckedInputs[k], "name", "unnamed input")>>
                ELSE <<>>])

====
